---------------------------- MODULE Spec2Model ----------------------------
(***************************************************************************)
(* A model of the rendering engine of code-visualizer:                     *)
(*   - determine_dimensions (src/render/function.rs), the layout planner;  *)
(*   - process (src/render/chunk.rs), the per-line compositor;             *)
(*   - render (src/render/function.rs), the sequential and the             *)
(*     multi-threaded pipeline.                                            *)
(* Three specifications share the module: SpecDim applies                  *)
(* determine_dimensions to bounded inputs, SpecLine walks process over the *)
(* lines of one file, and Spec is the render pipeline.                     *)
(***************************************************************************)
EXTENDS Integers, Sequences, FiniteSets, TLC

VARIABLES
    \* ---- SpecDim: one call of determine_dimensions
    dd_in,      \* the arguments of the call
    dd_out,     \* the value returned (a layout), or NoLayout
    dd_pc,      \* "idle" | "call" | "returned" | "diverged"
    \* ---- SpecLine: process walking the lines of one file
    ln_content, \* the file's text, a sequence of code points
    ln_cfg,     \* column_width and highlight_truncated_lines of the Context
    ln_done,    \* the number of lines processed so far
    ln_cur,     \* the (line, truncated_line) pair of the line processed last
    ln_longest, \* longest_line_in_chars
    ln_pc,      \* "idle" | "lines" | "returned" | "panicked"
    \* ---- Spec: one call of render
    r_in,             \* the arguments: files (path syntax, content), options
    r_pc,             \* where the calling thread is
    r_result,         \* "none" while the call runs, then what it returned
    should_interrupt, \* the cancel flag
    r_pre,            \* the pre-pass: content, total_line_count, num_ignored
    r_layout,         \* lines_per_column, required_columns
    r_img,            \* the canvas
    r_acc,            \* line_num, longest_line_chars, background
    r_seq,            \* sequential mode: next file, highlighter, prev_syntax
    r_tx,             \* the dispatch channel (tx, rx) and the dispatch loop
    r_workers,        \* the worker threads
    r_trx,            \* the result channel (ttx, trx)
    r_scope,          \* the error the thread scope's closure returned
    g_hl_failed,      \* history: a highlight_fn call failed
    g_polled_set,     \* history: a poll of the cancel flag read it set
    g_last_derived,   \* history: the background derived last by a file
    \* ---- SpecWalk: process compositing one line (span walk and padding)
    w_in,       \* the line's text, the Context, the font and the image
    w_pc,       \* "idle" | "walk" | "tab" | "pad" | "done"
    w_i,        \* the number of code points of the spans consumed
    cur_line_x, \* the cursor, in cells
    w_tab,      \* the tab expansion running or run last
    w_write,    \* the pixels the last put_char_in_image call wrote
    \* ---- SpecRegions: process choosing the regions of one line
    rg_in,      \* the line (its length), column_width, the flag, background
    rg_out,     \* the regions chosen and whether highlight was called
    rg_pc       \* "idle" | "line" | "chosen"

dimVars == <<dd_in, dd_out, dd_pc>>

lineVars == <<ln_content, ln_cfg, ln_done, ln_cur, ln_longest, ln_pc>>

renderVars ==
    <<r_in, r_pc, r_result, should_interrupt, r_pre, r_layout, r_img, r_acc,
      r_seq, r_tx, r_workers, r_trx, r_scope,
      g_hl_failed, g_polled_set, g_last_derived>>

walkVars == <<w_in, w_pc, w_i, cur_line_x, w_tab, w_write>>

regionVars == <<rg_in, rg_out, rg_pc>>

vars == <<dimVars, lineVars, renderVars, walkVars, regionVars>>

\* The variables of a specification that is not the one running.
DimIdle == dd_in = <<>> /\ dd_out = <<>> /\ dd_pc = "idle"

LineIdle ==
    /\ ln_content = <<>> /\ ln_cfg = <<>> /\ ln_done = 0
    /\ ln_cur = <<>> /\ ln_longest = 0 /\ ln_pc = "idle"

RenderIdle ==
    /\ r_in = <<>> /\ r_pc = "idle" /\ r_result = "none"
    /\ should_interrupt = FALSE /\ r_pre = <<>> /\ r_layout = <<>>
    /\ r_img = <<>> /\ r_acc = <<>> /\ r_seq = <<>> /\ r_tx = <<>>
    /\ r_workers = <<>> /\ r_trx = <<>> /\ r_scope = "none"
    /\ g_hl_failed = FALSE /\ g_polled_set = FALSE /\ g_last_derived = <<>>

WalkIdle ==
    /\ w_in = <<>> /\ w_pc = "idle" /\ w_i = 0 /\ cur_line_x = 0
    /\ w_tab = <<>> /\ w_write = <<>>

RegionIdle == rg_in = <<>> /\ rg_out = <<>> /\ rg_pc = "idle"

-----------------------------------------------------------------------------
(* Bounds of the model.                                                    *)

MaxLines == 9
MaxColumnWidth == 3
MaxLineHeight == 3
MaxContentLen == 4
MaxFiles == 2
MaxWalkLen == 3
MaxTabSpaces == 3

-----------------------------------------------------------------------------
(* Exact rational arithmetic. An aspect ratio is a pair <<n, d>>, d > 0,   *)
(* standing for n / d. The f64 values of the code are quotients of small   *)
(* integers; on the bounded inputs two distinct quotients differ by far    *)
(* more than an ulp, so the f64 comparisons order them as the rationals.   *)

Abs(x) == IF x < 0 THEN -x ELSE x

Min(a, b) == IF a <= b THEN a ELSE b

Max(a, b) == IF a >= b THEN a ELSE b

RatLeq(a, b) == a[1] * b[2] <= b[1] * a[2]

\* |a - t| > |b - t|
FartherFrom(t, a, b) ==
    Abs(a[1] * t[2] - t[1] * a[2]) * b[2] > Abs(b[1] * t[2] - t[1] * b[2]) * a[2]

\* total_line_count / lines_per_column, plus one when the remainder is not 0
CeilDivMissingRemainder(total, lpc) == total \div lpc

CeilDiv(total, lpc) ==
    (total \div lpc) + (IF total % lpc # 0 THEN 1 ELSE 0)

-----------------------------------------------------------------------------
(* determine_dimensions                                                    *)

NoLayout == [status |-> "none", lines_per_column |-> 0, required_columns |-> 0]

Layout(lpc, cols) ==
    [status |-> "ok", lines_per_column |-> lpc, required_columns |-> cols]

\* The inner loop of the force_full_columns branch never ends once
\* required_columns is 1: it stays 1 for every larger lines_per_column, until
\* lines_per_column overflows (a panic in a debug build, a wrap to 0 and a
\* division by zero in a release build). The call returns no layout.
Diverged == [status |-> "diverged", lines_per_column |-> 0, required_columns |-> 0]

\* cur_aspect_ratio as the loop recomputes it
AspectRatio(cols, column_width, lpc, line_height) ==
    <<cols * column_width, lpc * line_height>>

\* while required_columns == last_required_columns { lines_per_column += 1; ... }
RECURSIVE NextFullColumn(_, _, _)
NextFullColumn(total, lpc, last_required_columns) ==
    LET next == lpc + 1
    IN  IF CeilDiv(total, next) = last_required_columns
        THEN NextFullColumn(total, next, last_required_columns)
        ELSE next

\* The body of the search loop: the state after one iteration (or "diverged").
\* s = [last |-> ratio or "MAX", cur |-> ratio, lpc, limit, status]
SearchStep(s, column_width, total, line_height, force_full_columns) ==
    IF force_full_columns
    THEN IF CeilDiv(total, s.lpc) = 1
         THEN [s EXCEPT !.status = "diverged"]
         ELSE LET next == NextFullColumn(total, s.lpc, CeilDiv(total, s.lpc))
              IN  [status |-> "ok", last |-> s.cur, limit |-> s.lpc, lpc |-> next,
                   cur |-> AspectRatio(CeilDiv(total, next), column_width,
                                       next, line_height)]
    ELSE LET next == s.lpc + 1
         IN  [status |-> "ok", last |-> s.cur, limit |-> s.limit, lpc |-> next,
              cur |-> AspectRatio(CeilDiv(total, next), column_width,
                                  next, line_height)]

\* while (last - target).abs() > (cur - target).abs() { ... }
\* last_checked_aspect_ratio starts as f64::MAX, farther from any target
\* than any ratio.
RECURSIVE SearchLoop(_, _, _, _, _, _)
SearchLoop(s, target, column_width, total, line_height, force_full_columns) ==
    IF s.status # "ok"
    THEN s
    ELSE IF s.last = "MAX" \/ FartherFrom(target, s.last, s.cur)
         THEN SearchLoop(SearchStep(s, column_width, total, line_height,
                                    force_full_columns),
                         target, column_width, total, line_height,
                         force_full_columns)
         ELSE s

\* if lines_per_column != 1 && !force { lines_per_column -= 1 }
\* else if force { lines_per_column = last_column_line_limit }
StepBack(s, force_full_columns) ==
    IF s.lpc # 1 /\ ~force_full_columns THEN s.lpc - 1
    ELSE IF force_full_columns THEN s.limit
    ELSE s.lpc

determine_dimensions(target, column_width, total, line_height, force_full_columns) ==
    LET cur0     == <<column_width * total, 1 * 2>>
        tallest  == <<column_width * 2, total>>
        widest   == <<total * column_width, 2>>
    IN  IF RatLeq(target, tallest) THEN Layout(total, 1)
        ELSE IF RatLeq(widest, target) THEN Layout(1, total)
        ELSE LET s == SearchLoop([status |-> "ok", last |-> "MAX", cur |-> cur0,
                                  lpc |-> 1, limit |-> 1],
                                 target, column_width, total, line_height,
                                 force_full_columns)
             IN  IF s.status # "ok" THEN Diverged
                 ELSE LET lpc == StepBack(s, force_full_columns)
                      IN  Layout(lpc, CeilDiv(total, lpc))

-----------------------------------------------------------------------------
(* Text. A str is a sequence of code points; "nl" is the line feed, "e2"   *)
(* and "w3" stand for code points of 2 and 3 UTF-8 bytes. Its bytes are    *)
(* pairs <<code point, k>>, the k-th byte of the code point's encoding.    *)

CodePoints == {"a", "e2", "w3", "nl"}

\* char::len_utf8
len_utf8(c) == CASE c = "e2" -> 2 [] c = "w3" -> 3 [] OTHER -> 1

\* str::as_bytes
RECURSIVE as_bytes(_)
as_bytes(str) ==
    IF str = <<>> THEN <<>>
    ELSE [k \in 1..len_utf8(Head(str)) |-> <<Head(str), k>>] \o as_bytes(Tail(str))

\* The str a byte range of a str is: "panic" when the range does not end on a
\* code point boundary (str indexing panics there).
RECURSIVE to_str(_)
to_str(bytes) ==
    IF bytes = <<>> THEN <<>>
    ELSE LET c == bytes[1][1]
             n == len_utf8(c)
         IN  IF Len(bytes) < n THEN "panic"
             ELSE LET rest == to_str(SubSeq(bytes, n + 1, Len(bytes)))
                  IN  IF rest = "panic" THEN "panic" ELSE <<c>> \o rest

\* &line[..n]
SliceTo(str, n) == to_str(SubSeq(as_bytes(str), 1, n))

\* <[u8] as ByteSlice>::lines_with_terminator: every line ends with its line
\* feed, but for a last line that has none; no line is empty.
RECURSIVE lines_with_terminator(_)
lines_with_terminator(str) ==
    IF str = <<>> THEN <<>>
    ELSE LET nls == {i \in 1..Len(str) : str[i] = "nl"}
         IN  IF nls = {} THEN <<str>>
             ELSE LET i == CHOOSE j \in nls : \A k \in nls : j <= k
                  IN  <<SubSeq(str, 1, i)>>
                          \o lines_with_terminator(SubSeq(str, i + 1, Len(str)))

-----------------------------------------------------------------------------
(* process: the truncation of one line (chunk.rs, 75-100).                 *)

RECURSIVE SumLenUtf8(_)
SumLenUtf8(str) ==
    IF str = <<>> THEN 0 ELSE len_utf8(Head(str)) + SumLenUtf8(Tail(str))

\* chars.by_ref().take(column_width).map(|c| c.len_utf8()).sum()
BytesTillCharLimitOnePerChar(line, column_width) ==
    Min(Len(line), column_width)

BytesTillCharLimit(line, column_width) ==
    SumLenUtf8(SubSeq(line, 1, Min(Len(line), column_width)))

\* num_chars: the code points taken plus chars.count() of the rest
NumChars(line, column_width) ==
    Min(Len(line), column_width) + (Len(line) - Min(Len(line), column_width))

\* (num_chars >= column_width).then(|| &line[..bytes_till_char_limit])
\*     .unwrap_or(line)
PossiblyTruncatedLine(line, column_width) ==
    IF NumChars(line, column_width) >= column_width
    THEN SliceTo(line, BytesTillCharLimit(line, column_width))
    ELSE line

\* The pair (line, truncated_line) the rest of the loop body works with.
LineVariants(line, column_width, highlight_truncated_lines) ==
    [line |-> IF highlight_truncated_lines
              THEN PossiblyTruncatedLine(line, column_width)
              ELSE line,
     truncated_line |-> PossiblyTruncatedLine(line, column_width)]

-----------------------------------------------------------------------------
(* Pixels. The canvas is kept cell by cell: the cell of a line is the      *)
(* rectangle of column_width x line_height pixels at the line's offsets,   *)
(* and its value stands for the pixels the line's own compositing leaves   *)
(* in it: the glyphs drawn (code point and foreground) over a background.  *)
(* src names the file and line that wrote the cell last; it is not part of *)
(* the pixels.                                                             *)

Black == [base |-> "black", file |-> -1]

\* Option::None of a background
None == [base |-> "none", file |-> -1]

\* A cell nothing wrote: the buffers start zeroed, which is black.
BlankCell == [glyphs |-> <<>>, bg |-> Black, src |-> <<-1, -1>>]

\* Rgb::<u8>::CHANNEL_COUNT-deep pixels of one cell, without the src tag
CellPixels(cell) == [glyphs |-> cell.glyphs, bg |-> cell.bg]

Pixels(img) == [p \in DOMAIN img |-> CellPixels(img[p])]

\* An image of `columns` columns of `rows` cells, all zero.
NewImage(columns, rows, column_width, line_height) ==
    [p \in {<<c * column_width, r * line_height>> :
                c \in 0..(columns - 1), r \in 0..(rows - 1)} |-> BlankCell]

\* One pixel column per character cell: the canvas is
\* required_columns * column_width pixels wide.
char_width == 1

\* lines longer than this many bytes are not highlighted
OversizeLineBytes == 16384

calc_offsets_swapped(line_num, lines_per_column, column_width, line_height) ==
    << (line_num % lines_per_column) * column_width,
       (line_num \div lines_per_column) * line_height >>

calc_offsets(line_num, lines_per_column, column_width, line_height) ==
    << (line_num \div lines_per_column) * column_width,
       (line_num % lines_per_column) * line_height >>

-----------------------------------------------------------------------------
(* The highlighter (syntect::easy::HighlightLines). It keeps the parse and *)
(* highlight state across the lines it is given: in syntax "rs" a line     *)
(* holding "o" opens a block comment that stays open in the lines after    *)
(* it, and a line holding "x" is one the syntax engine fails on. The plain *)
(* text syntax "txt" has no such state.                                    *)

ThemeBackground == [base |-> "theme", file |-> -1]

HighlightLines_new(syntax) == [syntax |-> syntax, open |-> FALSE]

Holds(line, c) == \E i \in 1..Len(line) : line[i] = c

highlight_line(h, line) ==
    IF h.syntax = "rs" /\ Holds(line, "x")
    THEN [ok |-> FALSE, h |-> h, regions |-> <<>>]
    ELSE [ok |-> TRUE,
          h |-> [h EXCEPT !.open = h.open \/ (h.syntax = "rs" /\ Holds(line, "o"))],
          regions |-> << [style |-> [foreground |->
                                        IF h.syntax # "rs" THEN "plain"
                                        ELSE IF h.open THEN "comment" ELSE "code",
                                     background |-> ThemeBackground],
                          text |-> line] >>]

\* ss.find_syntax_for_file(&path): the syntax of the path, "none" if unknown
find_syntax_for_file(file) == file.syntax

\* .unwrap_or_else(|| ss.find_syntax_plain_text())
SyntaxOrPlainText(file) ==
    IF find_syntax_for_file(file) = "none" THEN "txt" ELSE find_syntax_for_file(file)

\* if syntax as *const _ != prev_syntax { highlighter = new(syntax); ... }
\* hs = [highlighter, prev_syntax]
SelectHighlighterAlwaysNew(hs, file, plain) ==
    [highlighter |-> HighlightLines_new(IF plain THEN "txt" ELSE SyntaxOrPlainText(file)),
     prev_syntax |-> IF plain THEN "txt" ELSE SyntaxOrPlainText(file)]

SelectHighlighter(hs, file, plain) ==
    IF ~plain /\ SyntaxOrPlainText(file) # hs.prev_syntax
    THEN [highlighter |-> HighlightLines_new(SyntaxOrPlainText(file)),
          prev_syntax |-> SyntaxOrPlainText(file)]
    ELSE hs

InitialHighlighter ==
    [highlighter |-> HighlightLines_new("txt"), prev_syntax |-> "txt"]

-----------------------------------------------------------------------------
(* process: one file, line by line (chunk.rs, 47-252).                     *)

\* BgColor::to_rgb(style, file_index, color_modulation): the background of
\* the first span, modulated per file.
to_rgb(style, file_index) == [base |-> style.background.base, file |-> file_index]

default_bg_color(background) ==
    [foreground |-> "gray",
     background |-> IF background = None THEN Black ELSE background]

\* The glyphs the span walk draws: one per code point, in the span's
\* foreground, until column_width cells are filled.
RECURSIVE SpanGlyphs(_)
SpanGlyphs(regions) ==
    IF regions = <<>> THEN <<>>
    ELSE [i \in 1..Len(regions[1].text) |->
              <<regions[1].text[i], regions[1].style.foreground>>]
         \o SpanGlyphs(Tail(regions))

Glyphs(regions, column_width) ==
    SubSeq(SpanGlyphs(regions), 1, Min(Len(SpanGlyphs(regions)), column_width))

\* let regions = if line.len() > 1024 * 16 { fallback } else { highlight(line)? }
Regions(h, v, background) ==
    IF SumLenUtf8(v.line) > OversizeLineBytes
    THEN [ok |-> TRUE, h |-> h,
          regions |-> << [style |-> default_bg_color(background),
                          text |-> v.truncated_line] >>]
    ELSE highlight_line(h, v.line)

\* The loop over the lines. st = [ok, img, hs, longest_line_in_chars,
\* background, line_num]; ctx is the Context and first_line its line_num.
RECURSIVE ProcessLines(_, _, _)
ProcessLines(lines, st, ctx) ==
    IF lines = <<>> THEN st
    ELSE
    LET line == Head(lines)
        v    == LineVariants(line, ctx.column_width, ctx.highlight_truncated_lines)
        longest == Max(st.longest_line_in_chars, NumChars(line, ctx.column_width))
        actual_line == st.line_num % ctx.total_line_count
        off  == calc_offsets(actual_line, ctx.lines_per_column,
                             ctx.column_width * char_width, ctx.line_height)
        r    == Regions(st.hs.highlighter, v, st.background)
    IN  IF ~r.ok
        THEN [st EXCEPT !.ok = FALSE, !.longest_line_in_chars = longest]
        ELSE LET background == IF st.background = None
                               THEN to_rgb(r.regions[1].style, ctx.file_index)
                               ELSE st.background
                 cell == [glyphs |-> Glyphs(r.regions, ctx.column_width),
                          bg |-> background,
                          src |-> <<ctx.file_index, st.line_num - ctx.line_num>>]
             IN  ProcessLines(Tail(lines),
                     [ok |-> TRUE,
                      \* writes outside the image are skipped
                      img |-> IF off \in DOMAIN st.img
                              THEN [st.img EXCEPT ![off] = cell] ELSE st.img,
                      hs |-> [st.hs EXCEPT !.highlighter = r.h],
                      longest_line_in_chars |-> longest,
                      background |-> background,
                      line_num |-> st.line_num + 1],
                     ctx)

\* chunk::process(content, img, |line| highlighter.highlight_line(line), ctx):
\* [ok, img, hs, out] with out the Outcome
process(content, img, hs, ctx) ==
    LET st == ProcessLines(lines_with_terminator(content),
                           [ok |-> TRUE, img |-> img, hs |-> hs,
                            longest_line_in_chars |-> 0, background |-> None,
                            line_num |-> ctx.line_num],
                           ctx)
    IN  [ok |-> st.ok, img |-> st.img, hs |-> st.hs,
         out |-> [longest_line_in_chars |-> st.longest_line_in_chars,
                  background |-> st.background]]

-----------------------------------------------------------------------------
(* SpecLine: process over the lines of one file.                           *)

RECURSIVE StrsUpTo(_)
StrsUpTo(n) ==
    IF n = 0 THEN {<<>>}
    ELSE LET shorter == StrsUpTo(n - 1)
         IN  shorter \cup {Append(s, c) : s \in shorter, c \in CodePoints}

NoVariants == [line |-> <<>>, truncated_line |-> <<>>]

LineInit ==
    /\ ln_content \in StrsUpTo(MaxContentLen)
    /\ ln_cfg \in [column_width : 0..MaxColumnWidth,
                   highlight_truncated_lines : BOOLEAN]
    /\ ln_done = 0
    /\ ln_cur = NoVariants
    /\ ln_longest = 0
    /\ ln_pc = "lines"
    /\ DimIdle /\ RenderIdle /\ WalkIdle /\ RegionIdle

\* One iteration of `for line in content.as_bytes().lines_with_terminator()`
LineStep ==
    /\ ln_pc = "lines"
    /\ ln_done < Len(lines_with_terminator(ln_content))
    /\ LET line == lines_with_terminator(ln_content)[ln_done + 1]
           v    == LineVariants(line, ln_cfg.column_width,
                                ln_cfg.highlight_truncated_lines)
       IN  /\ ln_longest' = Max(ln_longest, NumChars(line, ln_cfg.column_width))
           /\ IF v.truncated_line = "panic"
              THEN ln_pc' = "panicked" /\ UNCHANGED <<ln_cur, ln_done>>
              ELSE ln_pc' = ln_pc /\ ln_cur' = v /\ ln_done' = ln_done + 1
    /\ UNCHANGED <<ln_content, ln_cfg, dimVars, renderVars, walkVars,
                   regionVars>>

\* Ok(Outcome { longest_line_in_chars, background })
LineReturn ==
    /\ ln_pc = "lines"
    /\ ln_done = Len(lines_with_terminator(ln_content))
    /\ ln_pc' = "returned"
    /\ UNCHANGED <<ln_content, ln_cfg, ln_done, ln_cur, ln_longest, dimVars,
                   renderVars, walkVars, regionVars>>

LineNext == LineStep \/ LineReturn

SpecLine == LineInit /\ [][LineNext]_vars

-----------------------------------------------------------------------------
(* SpecDim: determine_dimensions on bounded inputs.                        *)

Targets ==
    { <<1, 20>>, <<1, 6>>, <<1, 3>>, <<1, 2>>, <<2, 3>>, <<1, 1>>, <<4, 3>>,
      <<3, 2>>, <<16, 9>>, <<2, 1>>, <<3, 1>>, <<5, 1>>, <<9, 1>>, <<40, 1>> }

\* spec.md, section 8: files of 10, 5 and 20 lines, column_width 100,
\* line_height 2, target 16/9
SpecScenario ==
    [target |-> <<16, 9>>, column_width |-> 100, total_line_count |-> 35,
     line_height |-> 2, force_full_columns |-> FALSE]

DimInputs ==
    [target : Targets, column_width : 1..MaxColumnWidth,
     total_line_count : 1..MaxLines, line_height : 1..MaxLineHeight,
     force_full_columns : BOOLEAN] \cup {SpecScenario}

DimResult(in) ==
    determine_dimensions(in.target, in.column_width, in.total_line_count,
                         in.line_height, in.force_full_columns)

DimInit ==
    /\ dd_in \in DimInputs /\ dd_out = NoLayout /\ dd_pc = "call"
    /\ LineIdle /\ RenderIdle /\ WalkIdle /\ RegionIdle

DimReturn ==
    /\ dd_pc = "call"
    /\ DimResult(dd_in).status = "ok"
    /\ dd_out' = DimResult(dd_in)
    /\ dd_pc' = "returned"
    /\ UNCHANGED <<dd_in, lineVars, renderVars, walkVars, regionVars>>

DimDiverge ==
    /\ dd_pc = "call"
    /\ DimResult(dd_in).status = "diverged"
    /\ dd_pc' = "diverged"
    /\ UNCHANGED <<dd_in, dd_out, lineVars, renderVars, walkVars, regionVars>>

DimNext == DimReturn \/ DimDiverge

SpecDim == DimInit /\ [][DimNext]_vars

-----------------------------------------------------------------------------
(* render: the pre-pass, the merge of a private buffer, the post-pass.     *)

\* str::lines().count(): the pieces between line feeds, a last empty piece
\* not counted
lines_count(str) ==
    Cardinality({i \in 1..Len(str) : str[i] = "nl"})
        + (IF str # <<>> /\ str[Len(str)] # "nl" THEN 1 ELSE 0)

\* The pre-pass loop over (path, content): [content, lines, num_ignored]
RECURSIVE PrePassLoopKeepAll(_, _, _)
PrePassLoopKeepAll(files, ignore_files_without_syntax, st) ==
    IF files = <<>> THEN st
    ELSE PrePassLoopKeepAll(Tail(files), ignore_files_without_syntax,
             [content |-> Append(st.content,
                                 [file |-> Head(files),
                                  num_content_lines |-> lines_count(Head(files).content)]),
              lines |-> st.lines + lines_count(Head(files).content),
              num_ignored |-> st.num_ignored])

RECURSIVE PrePassLoop(_, _, _)
PrePassLoop(files, ignore_files_without_syntax, st) ==
    IF files = <<>> THEN st
    ELSE LET file == Head(files)
             num_content_lines == lines_count(file.content)
             lines == st.lines + num_content_lines
         IN  PrePassLoop(Tail(files), ignore_files_without_syntax,
                 IF ignore_files_without_syntax
                    /\ find_syntax_for_file(file) = "none"
                 THEN [st EXCEPT !.lines = lines - num_content_lines,
                                 !.num_ignored = st.num_ignored + 1]
                 ELSE [st EXCEPT !.lines = lines,
                                 !.content = Append(st.content,
                                     [file |-> file,
                                      num_content_lines |-> num_content_lines])])

pre_pass(files, ignore_files_without_syntax) ==
    LET st == PrePassLoop(files, ignore_files_without_syntax,
                          [content |-> <<>>, lines |-> 0, num_ignored |-> 0])
    IN  [content |-> st.content, total_line_count |-> st.lines,
         num_ignored |-> st.num_ignored]

\* threads: 0 is the number of CPUs, and the count is clamped to 1..CPUs
ResolvedThreads(opt) ==
    LET t == IF opt.threads = 0 THEN opt.cpus ELSE opt.threads
    IN  Max(1, Min(t, opt.cpus))

\* The Context render hands to process.
Context(opt, pre, lines_per_column, line_num, file_index) ==
    [column_width |-> opt.column_width, line_height |-> opt.line_height,
     total_line_count |-> pre.total_line_count,
     highlight_truncated_lines |-> opt.highlight_truncated_lines,
     line_num |-> line_num, lines_per_column |-> lines_per_column,
     file_index |-> file_index]

\* The offsets of the rows of a private buffer in the canvas.
MergeOffset(res, line, pre, layout, opt) ==
    calc_offsets((res.lines_so_far + line) % pre.total_line_count,
                 layout.lines_per_column, opt.column_width, opt.line_height)

\* put_pixel panics outside the image
MergePanics(img, res, pre, layout, opt) ==
    \E line \in 0..(res.num_content_lines - 1) :
        MergeOffset(res, line, pre, layout, opt) \notin DOMAIN img

\* transfer pixels from sub_img to img
MergeInOrderOfArrival(img, res, pre, layout, opt, merged) ==
    [p \in DOMAIN img |->
        IF \E line \in 0..(res.num_content_lines - 1) :
               calc_offsets((merged + line) % pre.total_line_count,
                            layout.lines_per_column, opt.column_width,
                            opt.line_height) = p
        THEN LET line == CHOOSE l \in 0..(res.num_content_lines - 1) :
                             calc_offsets((merged + l) % pre.total_line_count,
                                          layout.lines_per_column,
                                          opt.column_width, opt.line_height) = p
             IN  res.img[<<0, line * opt.line_height>>]
        ELSE img[p]]

Merge(img, res, pre, layout, opt, merged) ==
    [p \in DOMAIN img |->
        IF \E line \in 0..(res.num_content_lines - 1) :
               MergeOffset(res, line, pre, layout, opt) = p
        THEN LET line == CHOOSE l \in 0..(res.num_content_lines - 1) :
                             MergeOffset(res, l, pre, layout, opt) = p
             IN  res.img[<<0, line * opt.line_height>>]
        ELSE img[p]]

\* fill in any empty bottom right corner, with background color
FillCell(background) ==
    [glyphs |-> <<>>,
     bg |-> IF background = None THEN Black ELSE background,
     src |-> <<-1, -1>>]

FillCorner(img, line_num, background, layout, opt) ==
    [p \in DOMAIN img |->
        IF \E k \in line_num..(layout.lines_per_column * layout.required_columns - 1) :
               calc_offsets(k, layout.lines_per_column, opt.column_width,
                            opt.line_height) = p
        THEN FillCell(background)
        ELSE img[p]]

\* One iteration of the sequential loop after the cancel check, for entry k
\* of content: a = [ok, img, acc, hs]
SeqFile(a, k, opt, pre, layout) ==
    LET e   == pre.content[k]
        hs  == SelectHighlighter(a.hs, e.file, opt.plain)
        p   == process(e.file.content, a.img, hs,
                       Context(opt, pre, layout.lines_per_column,
                               a.acc.line_num, k - 1))
    IN  [ok  |-> p.ok,
         img |-> p.img,
         hs  |-> p.hs,
         acc |-> [longest_line_chars |->
                      Max(p.out.longest_line_in_chars, a.acc.longest_line_chars),
                  line_num |-> a.acc.line_num + e.num_content_lines,
                  background |-> p.out.background]]

\* A worker's handling of one job: [ok, hs, res]
WorkerFile(hs0, job, opt, pre) ==
    LET hs  == SelectHighlighter(hs0, job.file, opt.plain)
        sub == NewImage(1, job.num_content_lines, opt.column_width,
                        opt.line_height)
        p   == process(job.file.content, sub, hs,
                       Context(opt, pre, pre.total_line_count, 0, job.file_index))
    IN  [ok |-> p.ok, hs |-> p.hs,
         res |-> [img |-> p.img, out |-> p.out,
                  num_content_lines |-> job.num_content_lines,
                  lines_so_far |-> job.lines_so_far]]

\* The orchestrator's handling of one result, before the cancel check.
MergeResult(img, acc, res, pre, layout, opt) ==
    [img |-> Merge(img, res, pre, layout, opt, acc.line_num),
     acc |-> [longest_line_chars |->
                  Max(res.out.longest_line_in_chars, acc.longest_line_chars),
              line_num |-> acc.line_num + res.num_content_lines,
              background |-> res.out.background]]

InitialAcc == [longest_line_chars |-> 0, line_num |-> 0, background |-> None]

-----------------------------------------------------------------------------
(* Spec: the call of render.                                               *)

\* The files a run may be given: a path with a known syntax ("rs") or none,
\* and a text.
FileUniverse ==
    { [syntax |-> "rs",   content |-> <<"o", "nl">>],
      [syntax |-> "rs",   content |-> <<"a", "nl", "a", "nl", "a">>],
      [syntax |-> "rs",   content |-> <<"x", "nl">>],
      [syntax |-> "none", content |-> <<"a", "nl">>],
      [syntax |-> "none", content |-> <<>>] }

RECURSIVE FileLists(_)
FileLists(n) ==
    IF n = 0 THEN {<<>>}
    ELSE LET shorter == FileLists(n - 1)
         IN  shorter \cup {Append(fs, f) : fs \in shorter, f \in FileUniverse}

RenderOptions ==
    [column_width : {2}, line_height : {2},
     target_aspect_ratio : {<<1, 2>>, <<3, 2>>},
     threads : {0, 1}, cpus : {2},
     highlight_truncated_lines : {TRUE},
     force_full_columns : BOOLEAN,
     plain : BOOLEAN,
     ignore_files_without_syntax : BOOLEAN]

Workers == 1..ResolvedThreads(r_in.opt)

AllWorkersExited == \A w \in DOMAIN r_workers : r_workers[w].pc = "exited"

NoJob == [file_index |-> -1]

RenderInit ==
    /\ r_in \in [files : FileLists(MaxFiles), opt : RenderOptions]
    /\ r_pc = "prepass" /\ r_result = "none"
    /\ should_interrupt = FALSE /\ r_pre = <<>> /\ r_layout = <<>>
    /\ r_img = <<>> /\ r_acc = InitialAcc /\ r_seq = <<>> /\ r_tx = <<>>
    /\ r_workers = <<>> /\ r_trx = <<>> /\ r_scope = "none"
    /\ g_hl_failed = FALSE /\ g_polled_set = FALSE /\ g_last_derived = None
    /\ DimIdle /\ LineIdle /\ WalkIdle /\ RegionIdle

\* The signal handler sets the flag, at any time while the call runs.
SetInterrupt ==
    /\ r_pc \notin {"idle", "done"}
    /\ ~should_interrupt
    /\ should_interrupt' = TRUE
    /\ UNCHANGED <<r_in, r_pc, r_result, r_pre, r_layout, r_img, r_acc, r_seq,
                   r_tx, r_workers, r_trx, r_scope,
                   g_hl_failed, g_polled_set, g_last_derived, dimVars, lineVars,
                   walkVars, regionVars>>

\* function.rs 155-178
PrePass ==
    /\ r_pc = "prepass"
    /\ r_pre' = pre_pass(r_in.files, r_in.opt.ignore_files_without_syntax)
    /\ IF r_pre'.total_line_count = 0
       THEN r_pc' = "done" /\ r_result' = "err_no_lines"
       ELSE r_pc' = "layout" /\ r_result' = r_result
    /\ UNCHANGED <<r_in, should_interrupt, r_layout, r_img, r_acc, r_seq,
                   r_tx, r_workers, r_trx, r_scope,
                   g_hl_failed, g_polled_set, g_last_derived, dimVars, lineVars,
                   walkVars, regionVars>>

\* function.rs 180-230, 288-345: the layout, the canvas, and the choice of
\* the mode; in parallel mode the channels and the workers
DetermineLayout ==
    /\ r_pc = "layout"
    /\ LET d == determine_dimensions(r_in.opt.target_aspect_ratio,
                    r_in.opt.column_width, r_pre.total_line_count,
                    r_in.opt.line_height, r_in.opt.force_full_columns)
       IN  IF d.status # "ok"
           THEN /\ r_pc' = "done" /\ r_result' = "panic"
                /\ UNCHANGED <<r_layout, r_img, r_seq, r_tx, r_workers, r_trx>>
           ELSE /\ r_layout' = d
                /\ r_img' = NewImage(d.required_columns,
                                     Min(r_pre.total_line_count, d.lines_per_column),
                                     r_in.opt.column_width, r_in.opt.line_height)
                /\ r_result' = r_result
                /\ IF ResolvedThreads(r_in.opt) < 2
                   THEN /\ r_pc' = "sequential"
                        /\ r_seq' = [i |-> 1, hs |-> InitialHighlighter]
                        /\ UNCHANGED <<r_tx, r_workers, r_trx>>
                   ELSE /\ r_pc' = "dispatch"
                        /\ r_tx' = [queue |-> <<>>, open |-> TRUE, sent |-> 0,
                                    lines_so_far |-> 0,
                                    capacity |-> Len(r_pre.content)]
                        /\ r_trx' = [queue |-> <<>>, open |-> TRUE]
                        /\ r_workers' = [w \in Workers |->
                                            [pc |-> "recv", hs |-> InitialHighlighter,
                                             job |-> NoJob]]
                        /\ UNCHANGED r_seq
    /\ UNCHANGED <<r_in, should_interrupt, r_pre, r_acc, r_scope,
                   g_hl_failed, g_polled_set, g_last_derived, dimVars, lineVars,
                   walkVars, regionVars>>

\* if should_interrupt.load(Ordering::Relaxed) { bail!("Cancelled by user") }
PollIgnored(flag) == FALSE

Poll(flag) == flag

\* function.rs 236-276: one iteration of the sequential loop
SeqIteration ==
    /\ r_pc = "sequential"
    /\ r_seq.i <= Len(r_pre.content)
    /\ g_polled_set' = (g_polled_set \/ should_interrupt)
    /\ IF Poll(should_interrupt)
       THEN /\ r_pc' = "done" /\ r_result' = "err_cancelled"
            /\ UNCHANGED <<r_img, r_acc, r_seq, g_hl_failed, g_last_derived>>
       ELSE LET a == SeqFile([ok |-> TRUE, img |-> r_img, acc |-> r_acc,
                              hs |-> r_seq.hs],
                             r_seq.i, r_in.opt, r_pre, r_layout)
            IN  /\ r_img' = a.img
                /\ IF a.ok
                   THEN /\ r_acc' = a.acc
                        /\ r_seq' = [i |-> r_seq.i + 1, hs |-> a.hs]
                        /\ g_last_derived' = IF a.acc.background # None
                                             THEN a.acc.background
                                             ELSE g_last_derived
                        /\ UNCHANGED <<r_pc, r_result, g_hl_failed>>
                   ELSE /\ r_pc' = "done" /\ r_result' = "err_highlight"
                        /\ g_hl_failed' = TRUE
                        /\ UNCHANGED <<r_acc, r_seq, g_last_derived>>
    /\ UNCHANGED <<r_in, should_interrupt, r_pre, r_layout, r_tx, r_workers,
                   r_trx, r_scope, dimVars, lineVars,
                   walkVars, regionVars>>

SeqEnd ==
    /\ r_pc = "sequential"
    /\ r_seq.i > Len(r_pre.content)
    /\ r_pc' = "fill"
    /\ UNCHANGED <<r_in, r_result, should_interrupt, r_pre, r_layout, r_img,
                   r_acc, r_seq, r_tx, r_workers, r_trx, r_scope,
                   g_hl_failed, g_polled_set, g_last_derived, dimVars, lineVars,
                   walkVars, regionVars>>

\* function.rs 346-352: tx.send(...)?, which fails once every receiver is
\* dropped and waits while the channel holds as many messages as its
\* capacity, content.len() (function.rs 292)
Dispatch ==
    /\ r_pc = "dispatch"
    /\ r_tx.sent < Len(r_pre.content)
    /\ IF AllWorkersExited
       THEN /\ r_scope' = "err_send" /\ r_pc' = "join"
            /\ r_tx' = [r_tx EXCEPT !.open = FALSE]
            /\ r_trx' = [r_trx EXCEPT !.open = FALSE]
       ELSE LET e == r_pre.content[r_tx.sent + 1]
            IN  /\ Len(r_tx.queue) < r_tx.capacity
                /\ r_tx' = [r_tx EXCEPT
                               !.queue = Append(@, [file |-> e.file,
                                   num_content_lines |-> e.num_content_lines,
                                   lines_so_far |-> r_tx.lines_so_far,
                                   file_index |-> r_tx.sent]),
                               !.sent = @ + 1,
                               !.lines_so_far = @ + e.num_content_lines]
                /\ UNCHANGED <<r_scope, r_pc, r_trx>>
    /\ UNCHANGED <<r_in, r_result, should_interrupt, r_pre, r_layout, r_img,
                   r_acc, r_seq, r_workers,
                   g_hl_failed, g_polled_set, g_last_derived, dimVars, lineVars,
                   walkVars, regionVars>>

\* function.rs 353: drop(tx)
DispatchEndKeepsTx ==
    /\ r_pc = "dispatch"
    /\ r_tx.sent = Len(r_pre.content)
    /\ r_pc' = "drain"
    /\ UNCHANGED <<r_in, r_result, should_interrupt, r_pre, r_layout, r_img,
                   r_acc, r_seq, r_tx, r_workers, r_trx, r_scope,
                   g_hl_failed, g_polled_set, g_last_derived, dimVars, lineVars,
                   walkVars, regionVars>>

DispatchEnd ==
    /\ r_pc = "dispatch"
    /\ r_tx.sent = Len(r_pre.content)
    /\ r_tx' = [r_tx EXCEPT !.open = FALSE]
    /\ r_pc' = "drain"
    /\ UNCHANGED <<r_in, r_result, should_interrupt, r_pre, r_layout, r_img,
                   r_acc, r_seq, r_workers, r_trx, r_scope,
                   g_hl_failed, g_polled_set, g_last_derived, dimVars, lineVars,
                   walkVars, regionVars>>

\* function.rs 304: a worker takes the next job from rx
WorkerRecv(w) ==
    /\ r_pc \in {"dispatch", "drain", "join"}
    /\ r_workers[w].pc = "recv"
    /\ r_tx.queue # <<>>
    /\ r_workers' = [r_workers EXCEPT ![w].pc = "busy", ![w].job = Head(r_tx.queue)]
    /\ r_tx' = [r_tx EXCEPT !.queue = Tail(@)]
    /\ UNCHANGED <<r_in, r_pc, r_result, should_interrupt, r_pre, r_layout,
                   r_img, r_acc, r_seq, r_trx, r_scope,
                   g_hl_failed, g_polled_set, g_last_derived, dimVars, lineVars,
                   walkVars, regionVars>>

\* function.rs 304, 341: rx is closed and empty, the loop ends, Ok(())
WorkerExit(w) ==
    /\ r_pc \in {"dispatch", "drain", "join"}
    /\ r_workers[w].pc = "recv"
    /\ r_tx.queue = <<>> /\ ~r_tx.open
    /\ r_workers' = [r_workers EXCEPT ![w].pc = "exited"]
    /\ UNCHANGED <<r_in, r_pc, r_result, should_interrupt, r_pre, r_layout,
                   r_img, r_acc, r_seq, r_tx, r_trx, r_scope,
                   g_hl_failed, g_polled_set, g_last_derived, dimVars, lineVars,
                   walkVars, regionVars>>

\* function.rs 305-339: the worker renders its file into a private buffer
\* and sends it; an error of process or of the send ends the thread, whose
\* result nobody reads
WorkerProcess(w) ==
    /\ r_pc \in {"dispatch", "drain", "join"}
    /\ r_workers[w].pc = "busy"
    /\ LET f == WorkerFile(r_workers[w].hs, r_workers[w].job, r_in.opt, r_pre)
       IN  IF ~f.ok
           THEN /\ r_workers' = [r_workers EXCEPT ![w].pc = "exited", ![w].job = NoJob]
                /\ g_hl_failed' = TRUE
                /\ UNCHANGED r_trx
           ELSE IF r_trx.open
           THEN /\ r_trx' = [r_trx EXCEPT !.queue = Append(@, f.res)]
                /\ r_workers' = [r_workers EXCEPT ![w].pc = "recv", ![w].hs = f.hs,
                                                  ![w].job = NoJob]
                /\ UNCHANGED g_hl_failed
           ELSE /\ r_workers' = [r_workers EXCEPT ![w].pc = "exited", ![w].job = NoJob]
                /\ UNCHANGED <<r_trx, g_hl_failed>>
    /\ UNCHANGED <<r_in, r_pc, r_result, should_interrupt, r_pre, r_layout,
                   r_img, r_acc, r_seq, r_tx, r_scope,
                   g_polled_set, g_last_derived, dimVars, lineVars,
                   walkVars, regionVars>>

\* function.rs 356-383: the next result is merged into the canvas, then the
\* cancel flag is read
Drain ==
    /\ r_pc = "drain"
    /\ r_trx.queue # <<>>
    /\ LET res == Head(r_trx.queue)
           m   == MergeResult(r_img, r_acc, res, r_pre, r_layout, r_in.opt)
       IN  IF MergePanics(r_img, res, r_pre, r_layout, r_in.opt)
           THEN /\ r_scope' = "panic" /\ r_pc' = "join"
                /\ r_trx' = [queue |-> <<>>, open |-> FALSE]
                /\ UNCHANGED <<r_img, r_acc, g_polled_set, g_last_derived>>
           ELSE /\ r_img' = m.img
                /\ r_acc' = m.acc
                /\ g_last_derived' = IF res.out.background # None
                                     THEN res.out.background ELSE g_last_derived
                /\ g_polled_set' = (g_polled_set \/ should_interrupt)
                /\ IF Poll(should_interrupt)
                   THEN /\ r_scope' = "err_cancelled" /\ r_pc' = "join"
                        /\ r_trx' = [queue |-> <<>>, open |-> FALSE]
                   ELSE /\ r_trx' = [r_trx EXCEPT !.queue = Tail(@)]
                        /\ UNCHANGED <<r_scope, r_pc>>
    /\ UNCHANGED <<r_in, r_result, should_interrupt, r_pre, r_layout, r_seq,
                   r_tx, r_workers, g_hl_failed, dimVars, lineVars,
                   walkVars, regionVars>>

\* function.rs 356, 384: every ttx is dropped and trx is empty, Ok(())
DrainEnd ==
    /\ r_pc = "drain"
    /\ r_trx.queue = <<>>
    /\ AllWorkersExited
    /\ r_pc' = "fill"
    /\ UNCHANGED <<r_in, r_result, should_interrupt, r_pre, r_layout, r_img,
                   r_acc, r_seq, r_tx, r_workers, r_trx, r_scope,
                   g_hl_failed, g_polled_set, g_last_derived, dimVars, lineVars,
                   walkVars, regionVars>>

\* function.rs 291, 385: the scope returns the closure's error once every
\* worker has ended
Join ==
    /\ r_pc = "join"
    /\ AllWorkersExited
    /\ r_pc' = "done"
    /\ r_result' = r_scope
    /\ UNCHANGED <<r_in, should_interrupt, r_pre, r_layout, r_img,
                   r_acc, r_seq, r_tx, r_workers, r_trx, r_scope,
                   g_hl_failed, g_polled_set, g_last_derived, dimVars, lineVars,
                   walkVars, regionVars>>

\* function.rs 389-412: the post-pass, Ok(img)
Fill ==
    /\ r_pc = "fill"
    /\ r_img' = FillCorner(r_img, r_acc.line_num, r_acc.background, r_layout,
                           r_in.opt)
    /\ r_acc' = [r_acc EXCEPT !.line_num =
                    Max(@, r_layout.lines_per_column * r_layout.required_columns)]
    /\ r_pc' = "done"
    /\ r_result' = "canvas"
    /\ UNCHANGED <<r_in, should_interrupt, r_pre, r_layout, r_seq, r_tx,
                   r_workers, r_trx, r_scope,
                   g_hl_failed, g_polled_set, g_last_derived, dimVars, lineVars,
                   walkVars, regionVars>>

Next ==
    \/ SetInterrupt
    \/ PrePass
    \/ DetermineLayout
    \/ SeqIteration
    \/ SeqEnd
    \/ Dispatch
    \/ DispatchEnd
    \/ \E w \in DOMAIN r_workers : WorkerRecv(w)
    \/ \E w \in DOMAIN r_workers : WorkerExit(w)
    \/ \E w \in DOMAIN r_workers : WorkerProcess(w)
    \/ Drain
    \/ DrainEnd
    \/ Join
    \/ Fill

Spec == RenderInit /\ [][Next]_vars

\* The steps of the thread that called render but for those that compute
\* the layout or render a file, and the steps of worker w but for the
\* rendering of a file.
Orchestrator ==
    \/ PrePass \/ SeqEnd
    \/ Dispatch \/ DispatchEnd \/ Drain \/ DrainEnd \/ Join \/ Fill

Worker(w) == WorkerRecv(w) \/ WorkerExit(w)

\* A thread computing: the calling thread in DetermineLayout and in
\* SeqIteration, worker w in WorkerProcess(w).
Planning == r_pc = "layout"

SeqRendering == r_pc = "sequential" /\ r_seq.i <= Len(r_pre.content)

Busy(w) ==
    /\ r_pc \in {"dispatch", "drain", "join"}
    /\ r_workers[w].pc = "busy"

\* Every thread that can take a step is scheduled in the end; nothing makes
\* the caller set the cancel flag. DetermineLayout is enabled exactly in the
\* states of Planning, SeqIteration in those of SeqRendering and
\* WorkerProcess(w) in those of Busy(w); a step of DetermineLayout ends
\* Planning and one of WorkerProcess(w) ends Busy(w). Weak fairness of
\* these three is that no thread computes forever, and that a sequential
\* iteration is taken again and again while there are files. The runs are
\* those of the highlighted, multi-column renders.
FairInit ==
    /\ RenderInit
    /\ ~r_in.opt.plain /\ ~r_in.opt.force_full_columns
    /\ r_in.opt.target_aspect_ratio = <<3, 2>>

FairSpec ==
    /\ FairInit /\ [][Next]_vars
    /\ WF_vars(Orchestrator)
    /\ \A w \in 1..2 : WF_vars(Worker(w))
    /\ []<>(~Planning)
    /\ \A w \in 1..2 : []<>(~Busy(w))
    /\ []<>(~SeqRendering) \/ []<><<r_seq' # r_seq \/ r_pc' # r_pc>>_vars

-----------------------------------------------------------------------------
(* SpecWalk: process compositing one line, put_char_in_image call by call  *)
(* (chunk.rs, 104-110 and 123-243). A pixel write is kept as the rectangle *)
(* x0 <= x < x1, y0 <= y < y1 of the pixels put. The spans of the line are *)
(* walked as one text: span boundaries change the colour of a glyph, not   *)
(* the cursor.                                                             *)

\* The code points of a line by what the walk and the font make of them: a
\* glyph of 8 columns ("a"), a glyph of 16 columns ("W"), ' ', '\t', '\n'.
WalkChars == {"a", "W", "sp", "tab", "nl"}

GlyphHeight == 16

NarrowGlyphWidth == 8

WideGlyphWidth == 16

\* unifont.load_bitmap(chr.into()): is_wide(), and whether any bit is set. The
\* font is not part of the program: control_pictures says whether its
\* bitmaps of U+0009 and U+000A are 16 columns wide pictures (as GNU Unifont
\* draws the control characters) or 8 columns wide blanks.
load_bitmap(chr, control_pictures) ==
    CASE chr = "a"  -> [is_wide |-> FALSE, ink |-> TRUE]
      [] chr = "W"  -> [is_wide |-> TRUE,  ink |-> TRUE]
      [] chr = "sp" -> [is_wide |-> FALSE, ink |-> FALSE]
      [] OTHER      -> [is_wide |-> control_pictures, ink |-> control_pictures]

NoWrite == [x0 |-> 0, x1 |-> 0, y0 |-> 0, y1 |-> 0, text |-> FALSE]

\* put_char_in_image(chr, unifont, img_x, img_y, img, background_color,
\* text_color, cur_line_x): [write, cur_line_x]. Pixels outside the image are
\* skipped.
put_char_in_image(chr, control_pictures, img_x, img_y, img, background_color, text_color, x) ==
    LET bitmap == load_bitmap(chr, control_pictures)
        width  == IF bitmap.is_wide THEN WideGlyphWidth ELSE NarrowGlyphWidth
    IN  [write |-> [x0 |-> Min(img_x, img.width),
                    x1 |-> Min(img_x + width, img.width),
                    y0 |-> Min(img_y, img.height),
                    y1 |-> Min(img_y + GlyphHeight, img.height),
                    text |-> bitmap.ink /\ text_color # background_color],
         cur_line_x |-> IF bitmap.is_wide THEN x + 2 ELSE x + 1]

\* The texts of one line: a line feed ends the line.
RECURSIVE WalkTexts(_)
WalkTexts(n) ==
    IF n = 0 THEN {<<>>}
    ELSE LET shorter == WalkTexts(n - 1)
         IN  shorter \cup {Append(t, c) : t \in {u \in shorter : ~Holds(u, "nl")},
                                          c \in WalkChars}

\* The line is line line_num of 4 in an image of 2 columns of 2 lines.
WalkInputs ==
    [text : WalkTexts(MaxWalkLen),
     column_width : 1..MaxColumnWidth,
     tab_spaces : 1..MaxTabSpaces,
     geometry : {[char_width |-> char_width, line_height |-> 2],
                 [char_width |-> NarrowGlyphWidth, line_height |-> GlyphHeight]},
     line_num : {1, 2},
     control_pictures : BOOLEAN]

WalkImage ==
    [width  |-> 2 * w_in.column_width * w_in.geometry.char_width,
     height |-> 2 * w_in.geometry.line_height]

\* (cur_column_x_offset, cur_y)
WalkOffsets ==
    calc_offsets(w_in.line_num, 2,
                 w_in.column_width * w_in.geometry.char_width,
                 w_in.geometry.line_height)

NoTab == [c |-> 0, left |-> 0, emitted |-> 0, text |-> FALSE, ended |-> FALSE]

WalkInit ==
    /\ w_in \in WalkInputs
    /\ w_pc = "walk" /\ w_i = 0 /\ cur_line_x = 0
    /\ w_tab = NoTab /\ w_write = NoWrite
    /\ DimIdle /\ LineIdle /\ RenderIdle /\ RegionIdle

\* The call of put_char_in_image at the cursor
WalkPut(chr, text_color) ==
    put_char_in_image(chr, w_in.control_pictures,
        WalkOffsets[1] + cur_line_x * w_in.geometry.char_width, WalkOffsets[2],
        WalkImage, "background", text_color, cur_line_x)

\* chunk.rs 133-176, 203-221: a code point that is no tab
WalkChar ==
    /\ w_pc = "walk"
    /\ w_i < Len(w_in.text)
    /\ cur_line_x < w_in.column_width
    /\ w_in.text[w_i + 1] # "tab"
    /\ LET p == WalkPut(w_in.text[w_i + 1], "char_color")
       IN  w_write' = p.write /\ cur_line_x' = p.cur_line_x
    /\ w_i' = w_i + 1
    /\ w_tab' = NoTab
    /\ UNCHANGED <<w_in, w_pc, dimVars, lineVars, renderVars, regionVars>>

\* chunk.rs 177-178: let spaces_to_add = tab_spaces - (cur_line_x % tab_spaces)
TabStart ==
    /\ w_pc = "walk"
    /\ w_i < Len(w_in.text)
    /\ cur_line_x < w_in.column_width
    /\ w_in.text[w_i + 1] = "tab"
    /\ w_tab' = [c |-> cur_line_x,
                 left |-> w_in.tab_spaces - (cur_line_x % w_in.tab_spaces),
                 emitted |-> 0, text |-> FALSE, ended |-> FALSE]
    /\ w_pc' = "tab"
    /\ UNCHANGED <<w_in, w_i, cur_line_x, w_write, dimVars, lineVars,
                   renderVars, regionVars>>

\* chunk.rs 180-202: one iteration of the loop over 0..spaces_to_add
TabStep ==
    /\ w_pc = "tab"
    /\ w_tab.left > 0
    /\ cur_line_x < w_in.column_width
    /\ LET p == WalkPut("tab", "char_color")
       IN  /\ w_write' = p.write /\ cur_line_x' = p.cur_line_x
           /\ w_tab' = [w_tab EXCEPT !.left = @ - 1, !.emitted = @ + 1,
                                     !.text = @ \/ p.write.text]
    /\ UNCHANGED <<w_in, w_pc, w_i, dimVars, lineVars, renderVars, regionVars>>

\* chunk.rs 180-183: the loop over 0..spaces_to_add ends, or breaks
TabEnd ==
    /\ w_pc = "tab"
    /\ w_tab.left = 0 \/ cur_line_x >= w_in.column_width
    /\ w_tab' = [w_tab EXCEPT !.ended = TRUE]
    /\ w_i' = w_i + 1
    /\ w_pc' = "walk"
    /\ UNCHANGED <<w_in, cur_line_x, w_write, dimVars, lineVars, renderVars,
                   regionVars>>

\* chunk.rs 125-136: the spans are exhausted or column_width cells are filled
WalkEnd ==
    /\ w_pc = "walk"
    /\ w_i = Len(w_in.text) \/ cur_line_x >= w_in.column_width
    /\ w_pc' = "pad"
    /\ UNCHANGED <<w_in, w_i, cur_line_x, w_tab, w_write, dimVars, lineVars,
                   renderVars, regionVars>>

\* chunk.rs 225-243: while cur_line_x < column_width, a ' ' in the background
Pad ==
    /\ w_pc = "pad"
    /\ cur_line_x < w_in.column_width
    /\ LET p == WalkPut("sp", "background")
       IN  w_write' = p.write /\ cur_line_x' = p.cur_line_x
    /\ UNCHANGED <<w_in, w_pc, w_i, w_tab, dimVars, lineVars, renderVars,
                   regionVars>>

\* chunk.rs 245: line_num += 1
PadEnd ==
    /\ w_pc = "pad"
    /\ cur_line_x >= w_in.column_width
    /\ w_pc' = "done"
    /\ UNCHANGED <<w_in, w_i, cur_line_x, w_tab, w_write, dimVars, lineVars,
                   renderVars, regionVars>>

WalkNext ==
    WalkChar \/ TabStart \/ TabStep \/ TabEnd \/ WalkEnd \/ Pad \/ PadEnd

SpecWalk == WalkInit /\ [][WalkNext]_vars

-----------------------------------------------------------------------------
(* SpecRegions: process choosing the regions of one line (chunk.rs,        *)
(* 75-120), for lines about as long as the limit of 1024 * 16 bytes. The   *)
(* line is n code points of one byte each and is kept as its length n.     *)

\* The lengths tried: short ones, and those around the limit.
RegionLengths ==
    (1..MaxColumnWidth)
        \cup {OversizeLineBytes + d : d \in -1..MaxColumnWidth}

\* chars.by_ref().take(column_width).map(|c| c.len_utf8()).sum()
AsciiBytesTillCharLimit(n, column_width) == Min(n, column_width)

\* possibly_truncated_line.len()
AsciiTruncatedLen(n, column_width) ==
    IF n >= column_width THEN AsciiBytesTillCharLimit(n, column_width) ELSE n

\* line.len(), line being the first element of the pair
AsciiLineLen(n, column_width, highlight_truncated_lines) ==
    IF highlight_truncated_lines THEN AsciiTruncatedLen(n, column_width) ELSE n

RegionInit ==
    /\ rg_in \in [n : RegionLengths, column_width : RegionLengths,
                  highlight_truncated_lines : BOOLEAN,
                  background : {None, [base |-> "theme", file |-> 0]}]
    /\ rg_out = <<>> /\ rg_pc = "line"
    /\ DimIdle /\ LineIdle /\ RenderIdle /\ WalkIdle

\* chunk.rs 114-116: the line is over the limit, one span in the fallback style
RegionFallback ==
    /\ rg_pc = "line"
    /\ AsciiLineLen(rg_in.n, rg_in.column_width,
                    rg_in.highlight_truncated_lines) > OversizeLineBytes
    /\ rg_out' = [highlight_called |-> FALSE,
                  regions |-> << [style |-> default_bg_color(rg_in.background),
                                  text_len |-> AsciiTruncatedLen(rg_in.n,
                                                   rg_in.column_width)] >>]
    /\ rg_pc' = "chosen"
    /\ UNCHANGED <<rg_in, dimVars, lineVars, renderVars, walkVars>>

\* chunk.rs 117-119: storage = highlight(line)?, here one span of the theme
RegionHighlight ==
    /\ rg_pc = "line"
    /\ AsciiLineLen(rg_in.n, rg_in.column_width,
                    rg_in.highlight_truncated_lines) <= OversizeLineBytes
    /\ rg_out' = [highlight_called |-> TRUE,
                  regions |-> << [style |-> [foreground |-> "code",
                                             background |-> ThemeBackground],
                                  text_len |-> AsciiLineLen(rg_in.n,
                                                   rg_in.column_width,
                                                   rg_in.highlight_truncated_lines)] >>]
    /\ rg_pc' = "chosen"
    /\ UNCHANGED <<rg_in, dimVars, lineVars, renderVars, walkVars>>

RegionNext == RegionFallback \/ RegionHighlight

SpecRegions == RegionInit /\ [][RegionNext]_vars

-----------------------------------------------------------------------------
(* Claims about determine_dimensions.                                      *)

\* The aspect ratio the layout with lpc lines per column really has.
TrueRatio(in, lpc) ==
    AspectRatio(CeilDiv(in.total_line_count, lpc), in.column_width,
                lpc, in.line_height)

\* C1: with force_full_columns unset, the returned lines_per_column is one
\* whose aspect ratio is at least as close to the target as that of every
\* candidate in 1..total_line_count (brute force, exact rationals), and
\* required_columns is the matching ceiling.
C1_ClosestToTarget ==
    (dd_pc = "returned" /\ ~dd_in.force_full_columns) =>
        /\ dd_out.lines_per_column \in 1..dd_in.total_line_count
        /\ dd_out.required_columns =
               CeilDiv(dd_in.total_line_count, dd_out.lines_per_column)
        /\ \A k \in 1..dd_in.total_line_count :
               ~FartherFrom(dd_in.target,
                            TrueRatio(dd_in, dd_out.lines_per_column),
                            TrueRatio(dd_in, k))

\* C8: every returned layout has 1 <= lines_per_column <= total_line_count,
\* required_columns = ceil(total_line_count / lines_per_column), and so
\* required_columns * lines_per_column >= total_line_count.
C8_LayoutCoversAllLines ==
    dd_pc = "returned" =>
        /\ 1 <= dd_out.lines_per_column
        /\ dd_out.lines_per_column <= dd_in.total_line_count
        /\ dd_out.required_columns * dd_out.lines_per_column
               >= dd_in.total_line_count
        /\ (dd_out.required_columns - 1) * dd_out.lines_per_column
               < dd_in.total_line_count

\* C8 witness: the search branch returned, under force_full_columns, a layout
\* with a partially filled last column.
C8_Witness ==
    /\ dd_pc = "returned"
    /\ dd_in.force_full_columns
    /\ dd_out.lines_per_column > 1
    /\ dd_out.required_columns > 1
    /\ dd_out.required_columns * dd_out.lines_per_column > dd_in.total_line_count

-----------------------------------------------------------------------------
(* Claims about the truncation of lines.                                   *)

\* The lines of the file as the standard splits them: after every line feed.
LinesRead == lines_with_terminator(ln_content)

\* C10: the truncated variant of the line processed last has
\* min(n, column_width) code points and is the prefix of that length of the
\* line (n its code points, terminator included), no slice panics, and
\* longest_line_in_chars is the maximum of the untruncated n over the lines
\* processed so far.
C10_TruncatedPrefixAndLongest ==
    /\ ln_pc # "panicked"
    /\ ln_done > 0 =>
          LET line == LinesRead[ln_done]
              n    == Len(line)
          IN  /\ Len(ln_cur.truncated_line) = Min(n, ln_cfg.column_width)
              /\ ln_cur.truncated_line
                     = SubSeq(line, 1, Min(n, ln_cfg.column_width))
    /\ \A i \in 1..ln_done : Len(LinesRead[i]) <= ln_longest
    /\ ln_done > 0 => \E i \in 1..ln_done : Len(LinesRead[i]) = ln_longest
    /\ ln_done = 0 => ln_longest = 0

\* C10 witness: a line of column_width + 1 code points, one of them of more
\* than one byte, was truncated to column_width and counted as
\* column_width + 1.
C10_Witness ==
    /\ ln_pc = "returned"
    /\ ln_done > 0
    /\ ln_cfg.column_width > 0
    /\ Len(LinesRead[ln_done]) = ln_cfg.column_width + 1
    /\ \E i \in 1..ln_cfg.column_width : len_utf8(LinesRead[ln_done][i]) > 1
    /\ Len(ln_cur.truncated_line) = ln_cfg.column_width
    /\ ln_longest = ln_cfg.column_width + 1

-----------------------------------------------------------------------------
(* Claims about render.                                                    *)

Parallel == ResolvedThreads(r_in.opt) >= 2

ReturnedCanvas == r_pc = "done" /\ r_result = "canvas"

\* The sequential loop from entry k on, without cancellation.
RECURSIVE SeqLoop(_, _, _, _, _)
SeqLoop(a, k, opt, pre, layout) ==
    IF k > Len(pre.content) \/ ~a.ok THEN a
    ELSE SeqLoop(SeqFile(a, k, opt, pre, layout), k + 1, opt, pre, layout)

\* What the sequential branch returns on the input of the run, when the
\* cancel flag stays unset: [ok, img]
SequentialCanvas ==
    LET a == SeqLoop([ok |-> TRUE,
                      img |-> NewImage(r_layout.required_columns,
                                 Min(r_pre.total_line_count, r_layout.lines_per_column),
                                 r_in.opt.column_width, r_in.opt.line_height),
                      acc |-> InitialAcc, hs |-> InitialHighlighter],
                     1, r_in.opt, r_pre, r_layout)
    IN  [ok |-> a.ok,
         img |-> FillCorner(a.img, a.acc.line_num, a.acc.background, r_layout,
                            r_in.opt)]

\* C2: a canvas the parallel branch returns has the pixels of the canvas the
\* sequential branch returns on the same files and options (stated for the
\* runs in which no highlight call fails).
C2_ParallelEqualsSequential ==
    (ReturnedCanvas /\ Parallel /\ ~g_hl_failed) =>
        /\ SequentialCanvas.ok
        /\ Pixels(r_img) = Pixels(SequentialCanvas.img)

\* The parallel branch under one schedule: a single worker takes every file
\* in dispatch order and its results arrive in that order. s = [img, acc, hs]
RECURSIVE InOrderLoop(_, _, _, _, _, _)
InOrderLoop(s, k, lines_so_far, opt, pre, layout) ==
    IF k > Len(pre.content) THEN s
    ELSE LET e == pre.content[k]
             f == WorkerFile(s.hs,
                      [file |-> e.file, num_content_lines |-> e.num_content_lines,
                       lines_so_far |-> lines_so_far, file_index |-> k - 1],
                      opt, pre)
             m == MergeResult(s.img, s.acc, f.res, pre, layout, opt)
         IN  InOrderLoop([img |-> m.img, acc |-> m.acc, hs |-> f.hs], k + 1,
                         lines_so_far + e.num_content_lines, opt, pre, layout)

InOrderCanvas ==
    LET s == InOrderLoop([img |-> NewImage(r_layout.required_columns,
                                 Min(r_pre.total_line_count, r_layout.lines_per_column),
                                 r_in.opt.column_width, r_in.opt.line_height),
                          acc |-> InitialAcc, hs |-> InitialHighlighter],
                         1, 0, r_in.opt, r_pre, r_layout)
    IN  FillCorner(s.img, s.acc.line_num, s.acc.background, r_layout, r_in.opt)

\* C3: in parallel mode the returned canvas is the same in every
\* interleaving: it has the pixels of the canvas of the run in which one
\* worker takes every file and the results arrive in dispatch order (stated
\* for the runs in which no highlight call fails).
C3_SameCanvasInEveryInterleaving ==
    (ReturnedCanvas /\ Parallel /\ ~g_hl_failed) =>
        Pixels(r_img) = Pixels(InOrderCanvas)

\* C4: once a highlight_fn call has failed, the call of render ends with the
\* highlighting error (stated for the runs in which the cancel flag is never
\* set).
C4_HighlightErrorFailsRender ==
    (r_pc = "done" /\ g_hl_failed /\ ~should_interrupt) =>
        r_result = "err_highlight"

\* C5, as claimed: a call during which the cancel flag was set never returns
\* a canvas.
C5_NoCanvasOnceCancelled ==
    (r_pc = "done" /\ should_interrupt) => r_result # "canvas"

\* C5, amended: once a poll of the cancel flag (before a file in sequential
\* mode, after a copy-merge in parallel mode) has read it set, the call ends
\* with the cancellation error, at once or when the workers have ended, and
\* returns no canvas.
C5_PolledCancelEndsInCancellation ==
    g_polled_set =>
        \/ r_pc = "done" /\ r_result = "err_cancelled"
        \/ r_pc = "join" /\ r_result = "none" /\ r_scope = "err_cancelled"

\* C5 witness: in parallel mode a poll after a copy-merge read the flag set,
\* and the call has ended with the cancellation error.
C5_Witness ==
    /\ Parallel /\ g_polled_set
    /\ r_pc = "done" /\ r_result = "err_cancelled"
    /\ r_acc.line_num > 0

\* C6: in parallel mode, once the cancel flag is set the orchestrator
\* dispatches no further file and copies no further private buffer into the
\* canvas.
C6_NoDispatchNoMergeAfterCancel ==
    [][ should_interrupt =>
            /\ r_pc = "dispatch" => r_tx'.sent = r_tx.sent
            /\ r_pc = "drain" => r_img' = r_img ]_vars

\* The cumulative line offset of entry k of content.
RECURSIVE LineOffset(_, _)
LineOffset(content, k) ==
    IF k <= 1 THEN 0
    ELSE LineOffset(content, k - 1) + content[k - 1].num_content_lines

\* C7: in a returned canvas, line j of the file with cumulative offset o is
\* what the cell at calc_offsets(o + j) holds, and every file holds as many
\* cells as its precomputed line count.
C7_FilesOccupyTheirCells ==
    ReturnedCanvas =>
        \A k \in 1..Len(r_pre.content) :
            /\ \A j \in 0..(r_pre.content[k].num_content_lines - 1) :
                  LET off == calc_offsets(LineOffset(r_pre.content, k) + j,
                                 r_layout.lines_per_column,
                                 r_in.opt.column_width, r_in.opt.line_height)
                  IN  off \in DOMAIN r_img /\ r_img[off].src = <<k - 1, j>>
            /\ Cardinality({p \in DOMAIN r_img : r_img[p].src[1] = k - 1})
                   = r_pre.content[k].num_content_lines

\* C9: in a returned canvas every cell from total_line_count to
\* required_columns * lines_per_column - 1 has the background derived last
\* by a file, and is black only if no file derived one.
C9_TrailingCellsLastSeenBackground ==
    ReturnedCanvas =>
        \A k \in r_pre.total_line_count ..
                 (r_layout.required_columns * r_layout.lines_per_column - 1) :
            LET cell == r_img[calc_offsets(k, r_layout.lines_per_column,
                                  r_in.opt.column_width, r_in.opt.line_height)]
            IN  /\ cell.glyphs = <<>>
                /\ cell.bg = IF g_last_derived = None THEN Black
                             ELSE g_last_derived

-----------------------------------------------------------------------------
(* Claims about the compositing of one line.                               *)

\* C11: a tab read with the cursor at cell c < column_width emits exactly
\* min(tab_spaces - (c mod tab_spaces), column_width - c) cells, all filled
\* with the background, and leaves the cursor at the next multiple of
\* tab_spaces above c, or at column_width if that is smaller.
C11_TabAdvancesToNextStop ==
    w_tab.ended =>
        LET to_stop == w_in.tab_spaces - (w_tab.c % w_in.tab_spaces)
        IN  /\ w_tab.emitted = Min(to_stop, w_in.column_width - w_tab.c)
            /\ cur_line_x = Min(w_tab.c + to_stop, w_in.column_width)
            /\ ~w_tab.text

\* The rectangle of the line's own cells: column_width cells from the
\* line's column x offset, line_height pixel rows from its y offset.
InOwnCells(write) ==
    /\ write.x0 >= WalkOffsets[1]
    /\ write.x1 <= WalkOffsets[1] + w_in.column_width * w_in.geometry.char_width
    /\ write.y0 >= WalkOffsets[2]
    /\ write.y1 <= WalkOffsets[2] + w_in.geometry.line_height

\* C17: every pixel written while a line is composited lies in the line's
\* own cells, and the cursor never exceeds column_width (stated for glyph
\* sized cells, char_width 8 and line_height 16, and for a font whose
\* bitmaps of the control characters are narrow blanks).
C17_WritesStayInOwnCells ==
    (w_pc # "idle" /\ w_in.geometry.char_width = NarrowGlyphWidth
                   /\ w_in.geometry.line_height = GlyphHeight
                   /\ ~w_in.control_pictures) =>
        /\ cur_line_x <= w_in.column_width
        /\ (w_write.x0 < w_write.x1 /\ w_write.y0 < w_write.y1)
               => InOwnCells(w_write)

\* C12: for a line of more than 16384 bytes highlight is not called, and the
\* line is rendered from exactly one span, in the fallback style (gray on the
\* background derived so far, or on black), over the truncated text.
C12_OversizeLineBypassesHighlight ==
    (rg_pc = "chosen" /\ rg_in.n > OversizeLineBytes) =>
        /\ ~rg_out.highlight_called
        /\ Len(rg_out.regions) = 1
        /\ rg_out.regions[1].style = default_bg_color(rg_in.background)
        /\ rg_out.regions[1].text_len
               = AsciiTruncatedLen(rg_in.n, rg_in.column_width)

-----------------------------------------------------------------------------
(* Claims about the pre-pass and the completion of render.                 *)

\* A file the pre-pass keeps.
Kept(file) ==
    ~(r_in.opt.ignore_files_without_syntax /\ file.syntax = "none")

RECURSIVE SumOfLines(_)
SumOfLines(files) ==
    IF files = <<>> THEN 0
    ELSE lines_count(Head(files).content) + SumOfLines(Tail(files))

\* C13: after the pre-pass, content is the files kept (with
\* ignore_files_without_syntax, those of a known syntax), in order;
\* total_line_count is the sum of their line counts; the ignored count is
\* the number of files dropped; no cell of the canvas is written by a file
\* that is not in content; and with a total of 0 the call has failed with
\* no layout, no canvas, no channel and no worker made.
C13_PrePassDropsFilesWithoutSyntax ==
    r_pc \notin {"idle", "prepass"} =>
        /\ [k \in 1..Len(r_pre.content) |-> r_pre.content[k].file]
               = SelectSeq(r_in.files, Kept)
        /\ r_pre.total_line_count = SumOfLines(SelectSeq(r_in.files, Kept))
        /\ r_pre.num_ignored
               = Len(r_in.files) - Len(SelectSeq(r_in.files, Kept))
        /\ \A p \in DOMAIN r_img :
               r_img[p].src[1] # -1 =>
                   /\ r_img[p].src[1] + 1 \in 1..Len(r_pre.content)
                   /\ Kept(r_pre.content[r_img[p].src[1] + 1].file)
        /\ r_pre.total_line_count = 0 =>
               /\ r_pc = "done" /\ r_result = "err_no_lines"
               /\ r_layout = <<>> /\ r_img = <<>>
               /\ r_tx = <<>> /\ r_trx = <<>> /\ r_workers = <<>>

\* C13 witness: with ignore_files_without_syntax set, a file without syntax
\* that has lines was dropped, another file was kept, and the canvas is
\* returned.
C13_Witness ==
    /\ r_pc = "done" /\ r_result = "canvas"
    /\ r_in.opt.ignore_files_without_syntax
    /\ r_pre.num_ignored > 0
    /\ \E k \in 1..Len(r_in.files) :
           ~Kept(r_in.files[k]) /\ lines_count(r_in.files[k].content) > 0
    /\ Len(r_pre.content) > 0

\* C14: in parallel mode no send on the dispatch channel finds the channel
\* full, and the call of render ends, with every worker ended, in every
\* interleaving.
C14_ParallelRenderCompletes ==
    /\ [](r_pc = "dispatch" => Len(r_tx.queue) < r_tx.capacity
                               \/ r_tx.sent = Len(r_pre.content))
    /\ (r_pc = "dispatch") ~> (r_pc = "done" /\ AllWorkersExited)

\* C14 witness: the call has ended on a cancellation read after a merge,
\* after a worker had stopped on a highlighting error, every worker ended.
C14_Witness ==
    /\ Parallel /\ r_pc = "done" /\ AllWorkersExited
    /\ g_hl_failed /\ r_result = "err_cancelled"


\* C15: determine_dimensions returns a layout for every input with
\* total_line_count >= 1, column_width >= 1 and line_height >= 1, with
\* force_full_columns set or unset: no call ends in the inner loop of the
\* force_full_columns branch running with required_columns already 1.
C15_DimensionsAlwaysReturns ==
    dd_pc # "diverged"


\* The cell a file's line j holds when the file is rendered alone, by a
\* highlighter that has seen no other file.
FreshCell(k, j) ==
    WorkerFile(InitialHighlighter,
               [file |-> r_pre.content[k].file,
                num_content_lines |-> r_pre.content[k].num_content_lines,
                lines_so_far |-> LineOffset(r_pre.content, k),
                file_index |-> k - 1],
               r_in.opt, r_pre)
        .res.img[<<0, j * r_in.opt.line_height>>]

\* C16: in a returned canvas of a render without a highlight failure, the
\* pixels of every line of every file are those the file gets from a
\* highlighter that processed no file before it, in sequential and in
\* parallel mode.
C16_PixelsIndependentOfEarlierFiles ==
    (ReturnedCanvas /\ ~g_hl_failed) =>
        \A k \in 1..Len(r_pre.content) :
            \A j \in 0..(r_pre.content[k].num_content_lines - 1) :
                CellPixels(r_img[calc_offsets(LineOffset(r_pre.content, k) + j,
                                     r_layout.lines_per_column,
                                     r_in.opt.column_width, r_in.opt.line_height)])
                    = CellPixels(FreshCell(k, j))

=============================================================================
